---- MODULE Spec2Model ----
(***************************************************************************)
(* The entity enrichment pipeline of src/main4.py with the credential      *)
(* loading of src/config.py.                                               *)
(*                                                                         *)
(* A Python string is a finite sequence of symbols.  A symbol is a chunk   *)
(* of characters that no operation of the program splits: " " is one       *)
(* whitespace character, "{entity}" the placeholder, the others opaque     *)
(* text.  str.strip, str.replace and the "in" test are computed on these   *)
(* sequences.                                                              *)
(*                                                                         *)
(* The script is followed from the import of config to the end of one      *)
(* batch; a session that already holds results of an earlier batch is an   *)
(* initial state.  The script stops at each blocking call, so a search or  *)
(* a completion request in flight is a state.  process_entity takes its    *)
(* clients as arguments: besides WebSearcher and LLMProcessor, which       *)
(* absorb their own failures, the steps SearchRaises and ModelRaises are   *)
(* those of a client whose call raises, the case the handler at the row    *)
(* boundary is written for.                                                *)
(***************************************************************************)
EXTENDS Integers, Sequences, FiniteSets, TLC

VARIABLES
    os_env,           \* names of the environment variables that have a value
    env_vars,         \* config.env_vars: the keys of the dictionary
    env_reports,      \* number of "Environment Error" lines printed
    pc,               \* position of the script
    ui,               \* what the last script run rendered
    df,               \* data_processor.df, the primary column's cells
    df_index,         \* data_processor.df.index, one label per row
    session_results,  \* st.session_state.results
    query_template,   \* the template of the batch in flight
    results,          \* main's local list `results`
    pos,              \* number of rows the loop has taken and appended
    idx,              \* main's `idx`: the index label of the row in hand
    total_rows,       \* len(df) read before the loop
    progress,         \* last value given to progress_bar.progress, <<num, den>>
    entity,           \* process_entity's argument for the current row
    query,            \* process_entity's local `query`
    search_results,   \* process_entity's local `search_results`
    result,           \* the record process_entity returned
    log,              \* per row: what the clients were seen to do
    searchCalls,      \* per row: invocations of searcher.search
    httpRequests,     \* per row: requests.get calls
    processCalls,     \* per row: invocations of llm_processor.process_results
    modelRequests,    \* per row: chat.completions.create calls
    warnings          \* number of "Empty search query" warnings

vars == <<os_env, env_vars, env_reports, pc, ui, df, df_index, session_results,
          query_template, results, pos, idx, total_rows, progress, entity, query,
          search_results, result, log, searchCalls, httpRequests,
          processCalls, modelRequests, warnings>>

----------------------------------------------------------------------------
(* Bounds *)

MaxRows == 2
MaxOrganic == 6

(* Program constants *)

NumResults == 5

Placeholder == "{entity}"

EmptyEntityValue == <<"Empty entity value">>
NoSearchResultsFound == <<"No search results found">>
ErrorProcessingResults == <<"Error processing results">>
ErrorDuringProcessing == <<"Error during processing">>

REQUIRED_ENV_VARS == {"GROQ_API_KEY", "SERPAPI_KEY", "GOOGLE_SHEETS_CREDENTIALS"}

----------------------------------------------------------------------------
(* Strings *)

IsSpace(c) == c = " "

RECURSIVE LStrip(_)
LStrip(s) ==
    IF s = <<>> THEN s
    ELSE IF IsSpace(Head(s)) THEN LStrip(Tail(s)) ELSE s

RECURSIVE RStrip(_)
RStrip(s) ==
    IF s = <<>> THEN s
    ELSE IF IsSpace(s[Len(s)]) THEN RStrip(SubSeq(s, 1, Len(s) - 1)) ELSE s

Strip(s) == RStrip(LStrip(s))

Contains(s, sym) == \E i \in 1..Len(s) : s[i] = sym

RECURSIVE Replace(_, _, _)
Replace(s, old, new) ==
    IF s = <<>> THEN <<>>
    ELSE (IF Head(s) = old THEN new ELSE <<Head(s)>>) \o Replace(Tail(s), old, new)

RECURSIVE SeqsUpTo(_, _)
SeqsUpTo(S, n) ==
    IF n = 0 THEN {<<>>}
    ELSE LET shorter == SeqsUpTo(S, n - 1)
         IN  shorter \cup {Append(s, x) : s \in {t \in shorter : Len(t) = n - 1}, x \in S}

----------------------------------------------------------------------------
(* Inputs *)

RawStrings == {<<>>, <<" ">>, <<"a">>, <<" ", "a", " ">>}

RawCells == [nan : {FALSE}, val : RawStrings] \cup {[nan |-> TRUE, val |-> <<>>]}

RawTables == SeqsUpTo(RawCells, MaxRows)

Templates == {<<>>, <<" ">>, <<"{Entity}">>,
              <<"Get ", "{entity}">>,
              <<"{entity}", "'s ", "{entity}">>}

Completions == {<<"x">>, <<" ", "x", " ">>}

\* organic_results of n items, in the provider's order; the items are the
\* dicts the code expects, or something else (a malformed payload).
Organic(n, dicts) == [i \in 1..n |-> [rank |-> i, isDict |-> dicts]]

ProviderResponses ==
    {[kind |-> "ok", organic |-> Organic(n, d)] : n \in 0..MaxOrganic, d \in BOOLEAN}
    \cup {[kind |-> k, organic |-> <<>>] :
            k \in {"no_organic_results", "http_error", "connection_error", "bad_json"}}

ModelOutcomes ==
    {[kind |-> "ok", content |-> c] : c \in Completions}
    \cup {[kind |-> k, content |-> <<>>] : k \in {"api_error", "bad_response"}}

\* An index label: a number, or text.
NumLabel(n) == [isNum |-> TRUE, num |-> n]
TextLabel == [isNum |-> FALSE, num |-> 0]

\* The default index 0..n-1.
RangeIndex(n) == [i \in 1..n |-> NumLabel(i - 1)]

\* read_csv takes the first field of each data row as the index when the
\* data rows have one more field than the header.
FirstColumnLabels == {TextLabel, NumLabel(0), NumLabel(5)}

CsvIndexes(n) == {RangeIndex(n)} \cup [1..n -> FirstColumnLabels]

NoSessionResults == [isNone |-> TRUE, rows |-> <<>>]

PriorResults ==
    {NoSessionResults,
     [isNone |-> FALSE, rows |-> <<>>],
     [isNone |-> FALSE,
      rows |-> <<[Entity |-> <<"a">>, Info |-> NoSearchResultsFound]>>]}

----------------------------------------------------------------------------
(* config.py *)

\* validate_env_vars: raises when any required variable has no value.
validate_env_vars(env) ==
    LET missing_vars == {v \in REQUIRED_ENV_VARS : v \notin env}
    IN  [raised |-> missing_vars # {}, env_vars |-> REQUIRED_ENV_VARS]

\* The import-time try/except: the error is printed and env_vars becomes {}.
ImportedEnvVars(env) ==
    IF validate_env_vars(env).raised THEN {} ELSE validate_env_vars(env).env_vars

----------------------------------------------------------------------------
(* DataProcessor *)

FillNa(raw) == IF raw.nan THEN <<>> ELSE raw.val

\* fillna(''), astype(str) and the per-column str.strip().
CleanCell(raw) == [readable |-> TRUE, nan |-> FALSE, val |-> Strip(FillNa(raw))]

\* A sheet whose header repeats a column name: the strip loop raises at the
\* repeated column after df was assigned, filled and cast.  A column after it
\* keeps its whitespace; the repeated column itself reads as a Series.
UnstrippedCell(raw) == [readable |-> TRUE, nan |-> FALSE, val |-> FillNa(raw)]
RepeatedCell(raw) == [readable |-> FALSE, nan |-> FALSE, val |-> <<>>]

SheetCell(raw, dup) ==
    IF dup = "none" THEN CleanCell(raw)
    ELSE IF dup = "primary" THEN RepeatedCell(raw)
    ELSE UnstrippedCell(raw)

get_value(cell) ==
    IF ~cell.readable THEN <<>>
    ELSE IF cell.nan THEN <<>>
    ELSE Strip(cell.val)

----------------------------------------------------------------------------
(* WebSearcher, LLMProcessor, process_entity *)

EmptyQuery(q) == q = <<>> \/ Strip(q) = <<>>

\* WebSearcherSearch with no except clause.
WebSearcherSearch_Uncaught(resp) ==
    [raised |-> resp.kind \in {"http_error", "connection_error", "bad_json"},
     value |-> IF resp.kind = "ok" THEN resp.organic ELSE <<>>]

\* WebSearcher.search past its empty-query guard, for a provider response:
\* the organic results of a good response, [] for a response without them
\* and for everything either except clause catches.
WebSearcherSearch(resp) ==
    [raised |-> FALSE,
     value |-> IF resp.kind = "ok" THEN resp.organic ELSE <<>>]

\* The context join of process_results: result.get on every item.
ContextBuilds(sr) == \A i \in 1..Len(sr) : sr[i].isDict

\* (idx + 1) / total_rows, as <<numerator, denominator>>.
ProgressValue(label, total) == <<label.num + 1, total>>

\* The addition raises for a text label; st.progress raises for a value
\* outside [0.0, 1.0].
ProgressRaises(label, total) ==
    \/ ~label.isNum
    \/ label.num + 1 < 0
    \/ label.num + 1 > total

\* NoResults testing for None only.
NoResults_NoneOnly(sr) == FALSE

\* `if not search_results`
NoResults(sr) == sr = <<>>

\* process_results from the completion request on: the stripped content of
\* the first choice, the sentinel for everything its except clause catches.
LLMProcessResults(out) ==
    [raised |-> FALSE,
     value |-> IF out.kind = "ok" THEN Strip(out.content) ELSE ErrorProcessingResults]

\* EmptyRecord reporting an empty entity as a processing error.
EmptyRecord_AsError(e) == [Entity |-> e, Info |-> ErrorDuringProcessing]

EmptyRecord(e) == [Entity |-> e, Info |-> EmptyEntityValue]
SuccessRecord(entity_str, info) == [Entity |-> entity_str, Info |-> info]
ErrorRecord(e) == [Entity |-> e, Info |-> ErrorDuringProcessing]

\* IsEmptyEntity testing for None only.
IsEmptyEntity_NoneOnly(entity_str) == FALSE

\* `if not entity_str`
IsEmptyEntity(entity_str) == entity_str = <<>>

\* SearchesIssued with the next row's search started ahead of time.
SearchesIssued_Prefetch(sc, k) ==
    [i \in 1..Len(sc) |-> IF i = k \/ i = k + 1 THEN sc[i] + 1 ELSE sc[i]]

\* searcher.search(query) is called once, for the row in hand.
SearchesIssued(sc, k) == [sc EXCEPT ![k] = @ + 1]

\* ValidTemplate without the placeholder test.
ValidTemplate_NonEmptyOnly(t) == ~(t = <<>>)

ValidTemplate(t) == ~(t = <<>> \/ ~Contains(t, Placeholder))

BuildQuery(t, entity_str) == Replace(t, Placeholder, entity_str)

HasCredentials(ev) == "SERPAPI_KEY" \in ev /\ "GROQ_API_KEY" \in ev

Inc(f, k) == [f EXCEPT ![k] = @ + 1]

NoLog == [search |-> "none", found |-> FALSE, llm |-> "none", content |-> <<>>]

----------------------------------------------------------------------------
(* The state machine *)

Init ==
    /\ os_env \in SUBSET REQUIRED_ENV_VARS
    /\ session_results \in PriorResults
    /\ env_vars = {}
    /\ env_reports = 0
    /\ pc = "boot"
    /\ ui = "none"
    /\ df = <<>>
    /\ df_index = <<>>
    /\ query_template = <<>>
    /\ results = <<>>
    /\ pos = 0
    /\ idx = NumLabel(0)
    /\ total_rows = 0
    /\ progress = <<0, 1>>
    /\ entity = <<>>
    /\ query = <<>>
    /\ search_results = <<>>
    /\ result = EmptyRecord(<<>>)
    /\ log = <<>>
    /\ searchCalls = <<>>
    /\ httpRequests = <<>>
    /\ processCalls = <<>>
    /\ modelRequests = <<>>
    /\ warnings = 0

loopVars == <<results, pos, idx, total_rows, progress, entity, query, search_results,
              result, log, searchCalls, httpRequests, processCalls,
              modelRequests, warnings>>

batchVars == <<query_template, loopVars>>

\* `from config import env_vars`
ImportConfig ==
    /\ pc = "boot"
    /\ env_vars' = ImportedEnvVars(os_env)
    /\ env_reports' = env_reports + (IF validate_env_vars(os_env).raised THEN 1 ELSE 0)
    /\ pc' = "nodata"
    /\ ui' = "title"
    /\ UNCHANGED <<os_env, df, df_index, session_results, batchVars>>

load_csv ==
    /\ pc = "nodata"
    /\ \E raw \in RawTables :
          /\ df' = [i \in 1..Len(raw) |-> CleanCell(raw[i])]
          /\ df_index' \in CsvIndexes(Len(raw))
    /\ pc' = "form"
    /\ ui' = "form"
    /\ UNCHANGED <<os_env, env_vars, env_reports, session_results, batchVars>>

load_google_sheet ==
    /\ pc = "nodata"
    /\ \E raw \in RawTables, dup \in {"none", "primary", "earlier"} :
          /\ df' = [i \in 1..Len(raw) |-> SheetCell(raw[i], dup)]
          /\ df_index' = RangeIndex(Len(raw))
    /\ pc' = "form"
    /\ ui' = "form"
    /\ UNCHANGED <<os_env, env_vars, env_reports, session_results, batchVars>>

\* "Process Data" with a template the check at line 222 refuses.
RejectTemplate ==
    /\ pc \in {"form", "crashed", "aborted", "done"}
    /\ \E t \in Templates :
          /\ ~ValidTemplate(t)
          /\ query_template' = t
    /\ ui' = "template_error"
    /\ UNCHANGED <<os_env, env_vars, env_reports, pc, df, df_index, session_results,
                   loopVars>>

\* "Process Data" with an accepted template: the clients are constructed and
\* the loop is set up.  A missing key raises KeyError in the constructor.
StartBatch ==
    /\ pc = "form"
    /\ \E t \in Templates :
          /\ ValidTemplate(t)
          /\ query_template' = t
          /\ IF ~HasCredentials(env_vars)
             THEN /\ pc' = "crashed"
                  /\ ui' = "exception"
                  /\ UNCHANGED loopVars
             ELSE /\ pc' = "loop"
                  /\ ui' = "progress"
                  /\ results' = <<>>
                  /\ pos' = 0
                  /\ total_rows' = Len(df)
                  /\ progress' = <<0, 1>>
                  /\ log' = [i \in 1..Len(df) |-> NoLog]
                  /\ searchCalls' = [i \in 1..Len(df) |-> 0]
                  /\ httpRequests' = [i \in 1..Len(df) |-> 0]
                  /\ processCalls' = [i \in 1..Len(df) |-> 0]
                  /\ modelRequests' = [i \in 1..Len(df) |-> 0]
                  /\ UNCHANGED <<idx, entity, query, search_results, result, warnings>>
    /\ UNCHANGED <<os_env, env_vars, env_reports, df, df_index, session_results>>

\* process_results from its entry to a return before the completion request
\* (no results, or the context join raised and the except clause gave the
\* sentinel) or to the completion request, for row k with search results sr.
EnterProcessResults(k, sr, entity_str) ==
    /\ processCalls' = Inc(processCalls, k)
    /\ IF NoResults(sr)
       THEN /\ result' = SuccessRecord(entity_str, NoSearchResultsFound)
            /\ search_results' = <<>>
            /\ pc' = "append"
            /\ UNCHANGED modelRequests
       ELSE IF ~ContextBuilds(sr)
       THEN /\ result' = SuccessRecord(entity_str, ErrorProcessingResults)
            /\ search_results' = <<>>
            /\ pc' = "append"
            /\ UNCHANGED modelRequests
       ELSE /\ modelRequests' = Inc(modelRequests, k)
            /\ search_results' = sr
            /\ pc' = "extract"
            /\ UNCHANGED result

\* The loop takes the next row: get_value, then process_entity up to its
\* early return or to the search request.
RowStart ==
    /\ pc = "loop"
    /\ pos < total_rows
    /\ LET k == pos + 1
           e == get_value(df[k])
           entity_str == Strip(e)
           q == BuildQuery(query_template, entity_str)
       IN  /\ idx' = df_index[k]
           /\ entity' = e
           /\ IF IsEmptyEntity(entity_str)
              THEN /\ result' = EmptyRecord(e)
                   /\ pc' = "append"
                   /\ query' = <<>>
                   /\ search_results' = <<>>
                   /\ UNCHANGED <<log, searchCalls, processCalls, modelRequests,
                                  warnings>>
              ELSE /\ query' = q
                   /\ searchCalls' = SearchesIssued(searchCalls, k)
                   /\ IF EmptyQuery(q)
                      THEN /\ warnings' = warnings + 1
                           /\ log' = [log EXCEPT ![k].search = "empty_query"]
                           /\ EnterProcessResults(k, <<>>, entity_str)
                      ELSE /\ pc' = "search"
                           /\ search_results' = <<>>
                           /\ UNCHANGED <<log, result, processCalls, modelRequests,
                                          warnings>>
    /\ UNCHANGED <<os_env, env_vars, env_reports, ui, df, df_index, session_results,
                   query_template, results, pos, total_rows, progress,
                   httpRequests>>

\* WebSearcher.search: the request is made and answered; process_entity goes
\* on into process_results.
SearchReturn ==
    /\ pc = "search"
    /\ \E resp \in ProviderResponses :
          LET k == pos + 1
              r == WebSearcherSearch(resp)
          IN  /\ httpRequests' = Inc(httpRequests, k)
              /\ log' = [log EXCEPT ![k].search = resp.kind,
                                    ![k].found = ~r.raised /\ ~NoResults(r.value),
                                    ![k].llm = IF ~r.raised /\ ~ContextBuilds(r.value)
                                               THEN "context_error" ELSE @]
              /\ IF r.raised
                 THEN /\ result' = ErrorRecord(entity)
                      /\ pc' = "append"
                      /\ UNCHANGED <<search_results, processCalls, modelRequests>>
                 ELSE EnterProcessResults(k, r.value, Strip(entity))
    /\ UNCHANGED <<os_env, env_vars, env_reports, ui, df, df_index, session_results,
                   query_template, results, pos, idx, total_rows, progress, entity,
                   query, searchCalls, warnings>>

\* SearchRaises without the handler at the row boundary: the exception leaves
\* process_entity and ends the script run.
SearchRaises_Abort ==
    /\ pc = "search"
    /\ log' = [log EXCEPT ![pos + 1].search = "raised"]
    /\ pc' = "crashed"
    /\ ui' = "exception"
    /\ UNCHANGED <<os_env, env_vars, env_reports, df, df_index, session_results,
                   query_template, results, pos, idx, total_rows, progress, entity,
                   query, search_results, result, searchCalls, httpRequests,
                   processCalls, modelRequests, warnings>>

\* process_entity was given a searcher whose search raises: the handler at
\* the row boundary builds the error record.
SearchRaises ==
    /\ pc = "search"
    /\ log' = [log EXCEPT ![pos + 1].search = "raised"]
    /\ result' = ErrorRecord(entity)
    /\ pc' = "append"
    /\ UNCHANGED <<os_env, env_vars, env_reports, ui, df, df_index, session_results,
                   query_template, results, pos, idx, total_rows, progress, entity,
                   query, search_results, searchCalls, httpRequests,
                   processCalls, modelRequests, warnings>>

\* LLMProcessor.process_results: the completion request ends and
\* process_entity returns (its locals are gone).
ModelReturn ==
    /\ pc = "extract"
    /\ \E out \in ModelOutcomes :
          /\ log' = [log EXCEPT ![pos + 1].llm = out.kind, ![pos + 1].content = out.content]
          /\ result' = IF LLMProcessResults(out).raised
                       THEN ErrorRecord(entity)
                       ELSE SuccessRecord(Strip(entity), LLMProcessResults(out).value)
    /\ search_results' = <<>>
    /\ pc' = "append"
    /\ UNCHANGED <<os_env, env_vars, env_reports, ui, df, df_index, session_results,
                   query_template, results, pos, idx, total_rows, progress, entity,
                   query, searchCalls, httpRequests,
                   processCalls, modelRequests, warnings>>

\* process_entity was given an extraction client whose process_results
\* raises: search returns, line 172 calls the client whatever search
\* returned, and the handler at the row boundary builds the error record.
\* Such a client is not LLMProcessor and sends no completion request.
ModelRaises ==
    /\ pc = "search"
    /\ \E resp \in ProviderResponses :
          LET k == pos + 1
              r == WebSearcherSearch(resp)
          IN  /\ ~r.raised
              /\ httpRequests' = Inc(httpRequests, k)
              /\ processCalls' = Inc(processCalls, k)
              /\ log' = [log EXCEPT ![k].search = resp.kind,
                                    ![k].found = ~NoResults(r.value),
                                    ![k].llm = "raised"]
    /\ result' = ErrorRecord(entity)
    /\ search_results' = <<>>
    /\ pc' = "append"
    /\ UNCHANGED <<os_env, env_vars, env_reports, ui, df, df_index, session_results,
                   query_template, results, pos, idx, total_rows, progress, entity,
                   query, searchCalls, modelRequests, warnings>>

\* results.append(result) and the progress update, which is computed from
\* the row's index label and is outside every try: when it raises the script
\* run ends there.
AppendResult ==
    /\ pc = "append"
    /\ results' = Append(results, result)
    /\ pos' = pos + 1
    /\ IF ProgressRaises(idx, total_rows)
       THEN /\ pc' = "aborted"
            /\ ui' = "exception"
            /\ UNCHANGED progress
       ELSE /\ progress' = ProgressValue(idx, total_rows)
            /\ pc' = "loop"
            /\ UNCHANGED ui
    /\ UNCHANGED <<os_env, env_vars, env_reports, df, df_index, session_results,
                   query_template, idx, total_rows, entity, query, search_results,
                   result, log, searchCalls, httpRequests, processCalls,
                   modelRequests, warnings>>

\* The loop is over: the results are stored and shown.
FinishBatch ==
    /\ pc = "loop"
    /\ pos = total_rows
    /\ session_results' = [isNone |-> FALSE, rows |-> results]
    /\ pc' = "done"
    /\ ui' = "results"
    /\ UNCHANGED <<os_env, env_vars, env_reports, df, df_index, batchVars>>

Next ==
    \/ ImportConfig
    \/ load_csv
    \/ load_google_sheet
    \/ RejectTemplate
    \/ StartBatch
    \/ RowStart
    \/ SearchReturn
    \/ SearchRaises
    \/ ModelReturn
    \/ ModelRaises
    \/ AppendResult
    \/ FinishBatch

Spec == Init /\ [][Next]_vars

----------------------------------------------------------------------------
(* Properties *)

Running == {"loop", "search", "extract", "append"}

\* The cell's text has a character that is not whitespace.
NonBlank(cell) == cell.readable /\ \E i \in 1..Len(cell.val) : ~IsSpace(cell.val[i])

\* process_entity as a function of one row's cell and of what the clients
\* did for that row.
ExpectedRecord(cell, lg) ==
    LET e == get_value(cell)
    IN  IF ~NonBlank(cell) THEN [Entity |-> e, Info |-> EmptyEntityValue]
        ELSE IF lg.search = "raised" \/ lg.llm = "raised"
             THEN [Entity |-> e, Info |-> ErrorDuringProcessing]
        ELSE IF ~lg.found THEN [Entity |-> e, Info |-> NoSearchResultsFound]
        ELSE IF lg.llm = "ok" THEN [Entity |-> e, Info |-> Strip(lg.content)]
        ELSE [Entity |-> e, Info |-> ErrorProcessingResults]

\* C1: in a batch that passed template validation the results list holds one
\* record per row taken, the k-th record being the one of the k-th input
\* row, and when the loop has ended, by running out of rows or by an
\* exception out of its body, it holds exactly len(df) records.
C1_OneRecordPerRowInOrder ==
    /\ pc \in Running \cup {"done", "aborted"} =>
          /\ Len(results) = pos
          /\ pos <= Len(df)
          /\ \A k \in 1..Len(results) : results[k] = ExpectedRecord(df[k], log[k])
    /\ pc \in {"done", "aborted"} => Len(results) = Len(df)
    /\ pc = "done" => session_results = [isNone |-> FALSE, rows |-> results]

\* C2: when the search call made for row i raises, row i's record is the
\* error sentinel {Entity: str(entity), "Error during processing"}: the raise
\* ends nothing, the row is appended like any other.  Every other row's
\* record is what that row's own cell and calls give (the record it has in
\* any run, whatever happened to row i), and a batch that ran to its end has
\* the record count of the input.
C2_FailureIsolation ==
    \A i \in 1..Len(log) :
        log[i].search = "raised" =>
            /\ i > Len(results) =>
                  /\ pc = "append"
                  /\ i = pos + 1
                  /\ result = [Entity |-> get_value(df[i]),
                               Info |-> ErrorDuringProcessing]
            /\ i <= Len(results) =>
                  results[i] = [Entity |-> get_value(df[i]),
                                Info |-> ErrorDuringProcessing]
            /\ \A k \in 1..Len(results) :
                  k # i => results[k] = ExpectedRecord(df[k], log[k])
            /\ pc = "done" => Len(results) = Len(df)

C2_Witness ==
    /\ pc = "done"
    /\ \E i, k \in 1..Len(df) :
          /\ i < k
          /\ log[i].search = "raised"
          /\ log[k].search = "ok"
          /\ results[k].Info = <<"x">>

\* C3: a row whose primary-column value is empty or whitespace-only gets the
\* record text "Empty entity value", and neither search nor process_results
\* is ever called for it.
C3_EmptyEntitySkipped ==
    \A k \in 1..Len(log) :
        (df[k].readable /\ \A i \in 1..Len(df[k].val) : IsSpace(df[k].val[i])) =>
            /\ searchCalls[k] = 0
            /\ httpRequests[k] = 0
            /\ processCalls[k] = 0
            /\ modelRequests[k] = 0
            /\ k <= Len(results) => results[k].Info = EmptyEntityValue
            /\ (pc = "append" /\ k = pos + 1) => result.Info = EmptyEntityValue

C3_Witness ==
    /\ pc = "done"
    /\ \E k, j \in 1..Len(df) :
          /\ df[k].val = <<" ">>
          /\ results[k].Info = EmptyEntityValue
          /\ searchCalls[j] = 1

\* The template is empty or has no "{entity}" in it.
TemplateLacksPlaceholder(t) == t = <<>> \/ \A i \in 1..Len(t) : t[i] # "{entity}"

\* C4: a click on "Process Data" with a template that is empty or lacks
\* "{entity}" is rejected: no batch starts, no search or extraction call is
\* made, no record is produced and the stored results stay as they were.
C4_InvalidTemplateRejected ==
    [][(pc \in {"form", "crashed", "aborted", "done"} /\ TemplateLacksPlaceholder(query_template'))
         => /\ pc' = pc
            /\ ui' = "template_error"
            /\ UNCHANGED <<session_results, results, pos, searchCalls, httpRequests,
                           processCalls, modelRequests, log>>]_vars

C4_Witness ==
    /\ pc = "done"
    /\ ui = "template_error"
    /\ query_template = <<"{Entity}">>
    /\ Len(session_results.rows) >= 2

\* C5: with a required credential missing the system never gets past its
\* start: no form, no data, no batch.
C5_MissingCredentialHaltsAtStartup ==
    ("SERPAPI_KEY" \notin os_env \/ "GROQ_API_KEY" \notin os_env)
        => pc \in {"boot", "halted"}

\* C6: the sequence search hands to process_results has at most 5 results,
\* in the provider's order.
C6_AtMostFiveInOrder ==
    pc = "extract" =>
        /\ Len(search_results) <= NumResults
        /\ \A i \in 1..Len(search_results) : search_results[i].rank = i

SearchFailures == {"http_error", "connection_error", "bad_json"}
ModelFailures == {"context_error", "api_error", "bad_response"}

\* C7: a provider failure inside search makes search return [] (so that
\* LLMProcessor gives "No search results found"), a failure inside
\* LLMProcessor.process_results makes it return "Error processing results"; neither
\* becomes the row's "Error during processing" nor ends the run: the row is
\* appended like any other.  Each call makes at most one outbound request.
C7_FailuresAbsorbedAtCall ==
    \A k \in 1..Len(log) :
        /\ httpRequests[k] <= searchCalls[k]
        /\ searchCalls[k] <= 1
        /\ modelRequests[k] <= processCalls[k]
        /\ processCalls[k] <= 1
        /\ log[k].search \in SearchFailures =>
              /\ ~log[k].found
              /\ k > Len(results) => pc = "append" /\ k = pos + 1
              /\ (pc = "append" /\ k = pos + 1) => search_results = <<>>
              /\ (log[k].llm # "raised" /\ pc = "append" /\ k = pos + 1) =>
                    result.Info = NoSearchResultsFound
              /\ (log[k].llm # "raised" /\ k <= Len(results)) =>
                    results[k].Info = NoSearchResultsFound
        /\ log[k].llm \in ModelFailures =>
              /\ k > Len(results) => pc = "append" /\ k = pos + 1
              /\ (pc = "append" /\ k = pos + 1) => result.Info = ErrorProcessingResults
              /\ k <= Len(results) => results[k].Info = ErrorProcessingResults
        /\ (pc = "done" /\ (log[k].search \in SearchFailures \/ log[k].llm \in ModelFailures))
              => Len(results) = Len(df)

C7_Witness ==
    /\ pc = "done"
    /\ \E i, k \in 1..Len(df) :
          /\ i < k
          /\ log[i].search = "http_error"
          /\ log[k].llm = "api_error"
          /\ httpRequests[i] = 1
          /\ modelRequests[k] = 1

\* C8: LLMProcessor.process_results given [] returns "No search results
\* found" and makes no completion request; so a row whose search failed or
\* found nothing has no model request, and has that text (unless the
\* extraction client is one that raises instead of LLMProcessor).
C8_EmptyResultsShortCircuit ==
    /\ pc = "extract" => search_results # <<>> /\ modelRequests[pos + 1] = 1
    /\ \A k \in 1..Len(log) :
          (log[k].search \in SearchFailures \cup {"ok", "no_organic_results"}
             /\ ~log[k].found) =>
              /\ modelRequests[k] = 0
              /\ processCalls[k] = 1
              /\ (log[k].llm # "raised" /\ pc = "append" /\ k = pos + 1) =>
                    result.Info = NoSearchResultsFound
              /\ (log[k].llm # "raised" /\ k <= Len(results)) =>
                    results[k].Info = NoSearchResultsFound

C8_Witness ==
    /\ pc = "done"
    /\ \E i, k \in 1..Len(df) :
          /\ log[i].search = "ok"
          /\ ~log[i].found
          /\ log[k].search = "connection_error"
          /\ query_template = <<"{entity}", "'s ", "{entity}">>

RECURSIVE SumSeq(_)
SumSeq(f) == IF f = <<>> THEN 0 ELSE Head(f) + SumSeq(Tail(f))

\* C9: in a completed batch search was invoked once for each row whose
\* entity is not empty after trimming and for no other row, so the number of
\* invocations is the number of such rows; the query of a search in flight is
\* never empty after trimming.
C9_OneSearchPerNonEmptyEntity ==
    /\ pc = "done" =>
          /\ \A k \in 1..Len(df) : searchCalls[k] = (IF NonBlank(df[k]) THEN 1 ELSE 0)
          /\ SumSeq(searchCalls) = Cardinality({k \in 1..Len(df) : NonBlank(df[k])})
    /\ pc = "search" => \E i \in 1..Len(query) : ~IsSpace(query[i])
    /\ warnings = 0
    /\ \A k \in 1..Len(log) : log[k].search # "empty_query"

C9_Witness ==
    /\ pc = "done"
    /\ Len(df) >= 2
    /\ SumSeq(searchCalls) = 1
    /\ \E k \in 1..Len(df) : df[k].val = <<" ", "a", " ">> /\ searchCalls[k] = 1

\* C10: rows are processed one after the other in input order: a row's
\* extraction call is made only when its search has returned, and no search
\* or extraction call of a row is made before the record of the row before
\* it has been appended.
C10_SequentialInOrder ==
    \A k \in 1..Len(log) :
        /\ (searchCalls[k] > 0 \/ processCalls[k] > 0 \/ modelRequests[k] > 0)
              => Len(results) >= k - 1
        /\ processCalls[k] > 0 =>
              /\ searchCalls[k] > 0
              /\ log[k].search \notin {"none", "raised"}
        /\ (pc = "search" /\ k = pos + 1) => processCalls[k] = 0 /\ modelRequests[k] = 0
        /\ (pc = "extract" /\ k = pos + 1) => log[k].search = "ok" /\ Len(results) = k - 1

C10_Witness ==
    /\ pc = "extract"
    /\ pos = 1
    /\ searchCalls = <<1, 1>>
    /\ processCalls = <<1, 1>>
    /\ modelRequests = <<1, 1>>

====
